---- MODULE Spec2Model ----
(***************************************************************************)
(* A model of the task-memoization and task-execution layer of             *)
(* scripts/media-processing/media-manager.js (class MediaManager) and of   *)
(* the way image-sizer.js drives it.                                       *)
(*                                                                         *)
(* JavaScript runs every event-loop callback to completion, so each        *)
(* action below is one whole callback: a synchronous addTask call, the     *)
(* deferred 'ready' emission, the whole of runTasks(), one 'data' event on *)
(* a child's stderr, one 'exit' event, one invocation of a callback task's *)
(* continuation, and the deferred write-and-'done' step.                   *)
(*                                                                         *)
(* taskQueue is a queue-async queue (media-manager.js line 8).  It is      *)
(* modelled by what that library keeps (the deferred functions, started,   *)
(* active, remaining, the await callback): defer() pushes and pops,        *)
(* every invocation of a task's continuation decrements active and         *)
(* remaining, and the await callback is notified when remaining reaches 0. *)
(*                                                                         *)
(* Spec is one process with its dependencies installed; FairSpec adds the  *)
(* event loop's fairness to a first run; ProcessSpec adds the dependency   *)
(* check of the constructor and a second run of the script on the ledger   *)
(* the first one wrote; PluginSpec is a first run of an ImageSizer that    *)
(* was given plugins (the other three give it none, as index.js does).     *)
(***************************************************************************)
EXTENDS Integers, Sequences, FiniteSets, TLC

----------------------------------------------------------------------------
(* Bounds of the model *)

\* the largest number of successful addTask calls in one run
MaxRequests == 2

\* the largest number of 'data' events the children of a run emit on stderr
MaxStderr == 1

\* the largest concurrency limit tried
MaxConcurrency == 2

\* the largest number of plugins configured
MaxPlugins == 2

----------------------------------------------------------------------------
(* Values *)

\* slugs of the files getFilesInFolder() found
ScannedSlugs == {"a"}

\* a slug no scanned file has
UnknownSlugs == {"x"}

Slugs == ScannedSlugs \cup UnknownSlugs

\* values getFileHash() returns (md5 digests, never empty)
Hashes == {"H1", "H2"}

\* a property that is absent from an object
Undefined == "undefined"

\* a value of a property of a plugin descriptor: its typeof and, for a
\* string, its text
Value(type, text) == [type |-> type, value |-> text]

\* what "if (v)" takes for true
Truthy(v) == v.type # "undefined" /\ ~(v.type = "string" /\ v.value = "")

\* the plugin descriptors tried: a primitive in place of an object; an empty
\* hook; a hook that is not a string; a task that is not a function; a
\* plugin of 'ready'; a plugin of 'alltasksdone'
Plugins ==
  {[isObject |-> FALSE, hook |-> Value("undefined", ""), task |-> Value("undefined", "")],
   [isObject |-> TRUE, hook |-> Value("string", ""), task |-> Value("function", "")],
   [isObject |-> TRUE, hook |-> Value("number", ""), task |-> Value("function", "")],
   [isObject |-> TRUE, hook |-> Value("string", "ready"), task |-> Value("string", "task")],
   [isObject |-> TRUE, hook |-> Value("string", "ready"), task |-> Value("function", "")],
   [isObject |-> TRUE, hook |-> Value("string", "alltasksdone"), task |-> Value("function", "")]}

\* the lists of at most MaxPlugins plugins
PluginLists == UNION {[1..n -> Plugins] : n \in 0..MaxPlugins}

\* the dependencies ImageSizer configures
DefaultDependencies == {"convert"}

\* a command is a shell string or a JS function; a function is identified
\* by its name and its source text (what cmd.toString() returns).  The body
\* of the functions here says when they invoke their continuation.
StringCmds == {[kind |-> "string", name |-> "convert", body |-> ""]}

FunctionCmds ==
  {[kind |-> "function", name |-> "plugin", body |-> b] : b \in {"sync", "async"}}

Cmds == StringCmds \cup FunctionCmds

\* crypto.createHash('sha256').update(s).digest('hex'): a digest of s
Sha256(s) == "sha256(" \o s \o ")"

\* the key of a command in the ledger
CmdLog(cmd) ==
  IF cmd.kind = "string" THEN cmd.name ELSE cmd.name \o Sha256(cmd.body)

\* the name a command is reported under
CmdName(cmd) == cmd.name

Sigs == {CmdLog(c) : c \in Cmds}

\* the code an 'exit' event carries: a number, or null when the child was
\* terminated by a signal (exec's timeout kills it)
ExitCodes == {"0", "1", "null"}

\* one slug's object in privateData: present says whether the key exists
NoRecord == [present |-> FALSE, log |-> [g \in Sigs |-> Undefined]]

EmptyRecord == [present |-> TRUE, log |-> [g \in Sigs |-> Undefined]]

EmptyLedger == [s \in Slugs |-> NoRecord]

\* the fingerprint earlier runs recorded; the current one is it or another
RecordedHash == "H1"

\* the contents the private data file can have when the process starts:
\* absent or {}, or what earlier runs recorded for one slug, for every
\* command or for one
InitialLedgers ==
  {EmptyLedger}
  \cup {[EmptyLedger EXCEPT ![s] = [present |-> TRUE,
                                    log |-> [g \in Sigs |-> RecordedHash]]] :
          s \in Slugs}
  \cup {[EmptyLedger EXCEPT ![s] = [present |-> TRUE,
                                    log |-> [EmptyRecord.log EXCEPT ![g] = RecordedHash]]] :
          s \in ScannedSlugs, g \in Sigs}

----------------------------------------------------------------------------
VARIABLES
  options,       \* this.options: forceTask, numberOfConcurrentTask, dependencies,
                 \* plugins
  srcFileHash,   \* sourcePrivateData: slug -> srcFileHash
  installed,     \* the commands the system has
  registered,    \* the (slug, signature) pairs addTask has admitted in this run
  previousRun,   \* whether an earlier process ran to its end, and its pairs
  listeners,     \* the plugin tasks attached to events, in order of attachment
  privateData,   \* this.privateData, the ledger
  diskPrivate,   \* the contents of the private data file
  allTasks,      \* this.allTasks
  neededTasks,   \* this.neededTasks
  pc,            \* where the run is: "aborted", "constructed", "ready", "running"
  q,             \* this.taskQueue
  status,        \* per needed task: "queued", "running", "exited", "settled"
  stderrWrites,  \* per needed task: 'data' events seen on stderr
  tasksRun,      \* runTasks' counter of taskdone events
  pendingDone,   \* deferred callbacks of the alltasksdone listener not yet run
  payloads,      \* the data the emitted events carried, in order
  trace          \* what has happened, in order

vars == <<options, srcFileHash, installed, registered, previousRun, listeners, privateData,
          diskPrivate, allTasks, neededTasks, pc, q, status, stderrWrites,
          tasksRun, pendingDone, payloads, trace>>

\* the events MediaManager emits
EventTypes ==
  {"ready", "alltasksready", "alltasksrunning", "taskdone", "alltasksdone", "done"}

Entry(type, task) == [type |-> type, task |-> task]

----------------------------------------------------------------------------
(* The constructor *)

\* FindMissingDependencies finding every dependency
FindMissingDependenciesNone(dependencies, system) == {}

\* findMissingDependencies(): the dependencies "type" does not find
FindMissingDependencies(dependencies, system) == dependencies \ system

\* the value of pc the constructor returns with: it returns before it has
\* set taskQueue, allTasks, neededTasks, privateData or the scanned items,
\* and before it defers 'ready', when a dependency is missing
AfterConstructor(dependencies, system) ==
  IF FindMissingDependencies(dependencies, system) # {}
    THEN "aborted"
    ELSE "constructed"

\* queue(numberOfConcurrentTask)
NewQueue ==
  [tasks |-> <<>>, started |-> 0, active |-> 0, remaining |-> 0,
   popping |-> FALSE, awaiting |-> FALSE]

\* no earlier process
NoPreviousRun == [ended |-> FALSE, registered |-> {}]

\* the state the constructor leaves, the private data file holding one of
\* ledgers and the system having one of systems installed.  In an aborted
\* manager privateData, allTasks and neededTasks are not set: the values they
\* have here are read by nothing the manager does.
NewWith(ledgers, systems, pluginLists) ==
  /\ options \in [forceTask : BOOLEAN,
                   numberOfConcurrentTask : 1..MaxConcurrency,
                   dependencies : {DefaultDependencies},
                   plugins : pluginLists]
  /\ listeners = <<>>
  /\ srcFileHash \in [ScannedSlugs -> Hashes]
  /\ installed \in systems
  /\ registered = {}
  /\ previousRun = NoPreviousRun
  /\ privateData \in ledgers
  /\ diskPrivate = privateData
  /\ allTasks = <<>>
  /\ neededTasks = <<>>
  /\ pc = AfterConstructor(options.dependencies, installed)
  /\ q = NewQueue
  /\ status = <<>>
  /\ stderrWrites = <<>>
  /\ tasksRun = 0
  /\ pendingDone = 0
  /\ payloads = <<>>
  /\ trace = <<>>

\* the constructor called without plugins (ImageSizer's default)
New(ledgers, systems) == NewWith(ledgers, systems, {<<>>})

\* the constructor with every dependency installed
Constructed(ledgers) == New(ledgers, {DefaultDependencies})

Init == Constructed(InitialLedgers)

\* a first run: there is no private data file
FirstRunInit == Constructed({EmptyLedger})

----------------------------------------------------------------------------
(* addTask *)

\* !privateData[slug] || !privateData[slug][cmdLog]: no fingerprint recorded
NoEntry(pd, slug, sig) == ~pd[slug].present \/ pd[slug].log[sig] = Undefined

\* NeedsRun without the test of line 259: a recorded, unchanged fingerprint
\* is enough, whether or not the output file exists
NeedsRunIgnoringOutput(pd, slug, cmd, outputExists) ==
  LET sig == CmdLog(cmd)
      noRecord == NoEntry(pd, slug, sig) \/ pd[slug].log[sig] # srcFileHash[slug]
  IN  noRecord \/ options.forceTask

\* the value of runTask when addTask reaches "if (runTask)", for a scanned slug
NeedsRun(pd, slug, cmd, outputExists) ==
  LET sig == CmdLog(cmd)
      noRecord == NoEntry(pd, slug, sig) \/ pd[slug].log[sig] # srcFileHash[slug]
      noOutput == ~noRecord /\ ~outputExists
      forced == ~(noRecord \/ noOutput) /\ options.forceTask
  IN  noRecord \/ noOutput \/ forced

\* Record replacing the slug's object by one that holds this pair alone
\* (privateData[slug] = {[cmdLog]: hash})
RecordReplacing(pd, slug, sig, hash) ==
  [pd EXCEPT ![slug] = [present |-> TRUE,
                        log |-> [EmptyRecord.log EXCEPT ![sig] = hash]]]

\* Record without line 274: only privateData[slug] is created
RecordKeyOnly(pd, slug, sig, hash) ==
  [pd EXCEPT ![slug] = [present |-> TRUE, log |-> @.log]]

\* privateData[slug][cmdLog] = hash, creating privateData[slug] when absent
Record(pd, slug, sig, hash) ==
  [pd EXCEPT ![slug] = [present |-> TRUE, log |-> [@.log EXCEPT ![sig] = hash]]]

\* the number of calls the client has made so far, those that threw included
Calls == Len(allTasks) + Cardinality({k \in DOMAIN trace : trace[k].type = "throw"})

\* Register pushing to neededTasks whether or not the task is needed: the
\* push of lines 277-283 outside "if (runTask)"
RegisterPushingAlways(cmd, slug, needed) ==
  /\ privateData' =
       IF needed THEN Record(privateData, slug, CmdLog(cmd), srcFileHash[slug])
                 ELSE privateData
  /\ neededTasks' = Append(neededTasks, [cmd |-> cmd, slug |-> slug])
  /\ status' = Append(status, "queued")
  /\ stderrWrites' = Append(stderrWrites, 0)
  /\ allTasks' = Append(allTasks, cmd)
  /\ registered' = registered \cup {[slug |-> slug, sig |-> CmdLog(cmd)]}
  /\ UNCHANGED trace

\* lines 270-286 for a scanned slug, needed being the value of runTask
Register(cmd, slug, needed) ==
  /\ IF needed
       THEN /\ privateData' =
                 Record(privateData, slug, CmdLog(cmd), srcFileHash[slug])
            /\ neededTasks' = Append(neededTasks, [cmd |-> cmd, slug |-> slug])
            /\ status' = Append(status, "queued")
            /\ stderrWrites' = Append(stderrWrites, 0)
       ELSE UNCHANGED <<privateData, neededTasks, status, stderrWrites>>
  /\ allTasks' = Append(allTasks, cmd)
  /\ registered' = registered \cup {[slug |-> slug, sig |-> CmdLog(cmd)]}
  /\ UNCHANGED trace

\* Reject reading the fingerprint of an item that may be missing
\* (mediaPrivateData && mediaPrivateData.srcFileHash): nothing is thrown and
\* the registration is admitted
RejectGuarded(cmd, slug) ==
  /\ privateData' = [privateData EXCEPT ![slug] = EmptyRecord]
  /\ neededTasks' = Append(neededTasks, [cmd |-> cmd, slug |-> slug])
  /\ status' = Append(status, "queued")
  /\ stderrWrites' = Append(stderrWrites, 0)
  /\ allTasks' = Append(allTasks, cmd)
  /\ registered' = registered \cup {[slug |-> slug, sig |-> CmdLog(cmd)]}
  /\ UNCHANGED trace

\* addTask for a slug that was not scanned: getPrivateDataBySlug() is
\* undefined and reading its srcFileHash throws a TypeError, in the test of
\* line 255 when a fingerprint is recorded for the pair, and otherwise in
\* line 274, after line 273 has run
Reject(cmd, slug) ==
  /\ privateData' =
       IF ~privateData[slug].present
         THEN [privateData EXCEPT ![slug] = EmptyRecord]
         ELSE privateData
  /\ trace' = Append(trace, Entry("throw", 0))
  /\ UNCHANGED <<allTasks, neededTasks, status, stderrWrites, registered>>

\* RegistrationOpen with runTasks() called in the 'ready' listener itself
\* and not deferred: the listeners attached after it register their tasks
\* when the run has started
RegistrationOpenAfterRunTasks == pc \in {"constructed", "ready", "running"}

\* when the clients call addTask: synchronously after the constructor, before
\* the deferred 'ready', and in the listeners and plugins of 'ready', before
\* the deferred runTasks()
RegistrationOpen == pc \in {"constructed", "ready"}

\* addTask(cmd, slug, outputFilePath), outputExists being what
\* fs.existsSync(outputFilePath) answers
AddTask(cmd, slug, outputExists) ==
  /\ RegistrationOpen
  /\ Calls < MaxRequests
  /\ IF slug \in ScannedSlugs
       THEN Register(cmd, slug, NeedsRun(privateData, slug, cmd, outputExists))
       ELSE Reject(cmd, slug)
  /\ UNCHANGED <<options, srcFileHash, installed, previousRun, listeners, diskPrivate, pc, q,
                 tasksRun, pendingDone, payloads>>

----------------------------------------------------------------------------
(* The run state the executor's callbacks read and write *)

Snapshot ==
  [q |-> q, status |-> status, tasksRun |-> tasksRun,
   pendingDone |-> pendingDone, payloads |-> payloads, trace |-> trace]

Commit(s) ==
  /\ q' = s.q
  /\ status' = s.status
  /\ tasksRun' = s.tasksRun
  /\ pendingDone' = s.pendingDone
  /\ payloads' = s.payloads
  /\ trace' = s.trace

Log(s, type, task) == [s EXCEPT !.trace = Append(@, Entry(type, task))]

\* GetTasksMetaData reporting the length of allTasks as the number needed
\* and that of neededTasks as the number requested
GetTasksMetaDataSwapped(run) ==
  [numberOfTasksRequested |-> Len(neededTasks),
   numberOfTasksNeeded |-> Len(allTasks),
   numberOfTasksRun |-> run]

\* getTasksMetaData() of runTasks, run being the value of tasksRun
GetTasksMetaData(run) ==
  [numberOfTasksRequested |-> Len(allTasks),
   numberOfTasksNeeded |-> Len(neededTasks),
   numberOfTasksRun |-> run]

\* what localComplete() of task i passes to emit: the command's name and
\* the item getMetadataBySlug(slug) finds, here its slug
TaskDoneData(i) ==
  [cmd |-> CmdName(neededTasks[i].cmd), media |-> neededTasks[i].slug]

\* an emitted event and the data it carried
Payload(type, data) == [type |-> type, data |-> data]

RECURSIVE CallsOf(_, _)

\* the calls of the plugin tasks among ls that listen to type, in order
CallsOf(ls, type) ==
  IF ls = <<>>
    THEN <<>>
    ELSE (IF Head(ls).hook = type THEN <<Entry("plugin", Head(ls).plugin)>> ELSE <<>>)
           \o CallsOf(Tail(ls), type)

\* what the proxy of ImageSizer adds to an emission: the event is emitted
\* again under ImageSizer's name and the plugin tasks attached to it run
PluginCalls(type) == CallsOf(listeners, type)

\* this.emit(type, data) of _runTask and runTasks, the data being computed
\* before the listeners run: the listeners runTasks attached run synchronously.
\* The taskdone listener counts; the alltasksdone listener defers the final
\* write and 'done'.
Emit(s, type, task) ==
  LET data == IF type = "taskdone" THEN TaskDoneData(task)
                                   ELSE GetTasksMetaData(s.tasksRun)
      s1 == [Log(s, type, task) EXCEPT !.payloads = Append(@, Payload(type, data)),
                                       !.trace = @ \o PluginCalls(type)]
  IN  CASE type = "taskdone" -> [s1 EXCEPT !.tasksRun = @ + 1]
        [] type = "alltasksdone" -> [s1 EXCEPT !.pendingDone = @ + 1]
        [] OTHER -> s1

\* localComplete() of task i
LocalComplete(s, i) == Emit(s, "taskdone", i)

\* the await callback of runTasks; before await() is called it is a no-op
Notify(s) == IF s.q.awaiting THEN Emit(s, "alltasksdone", 0) ELSE s

\* NextToStart taking the task deferred last among those not yet started
NextToStartLast(s) ==
  CHOOSE i \in DOMAIN s.status :
    /\ s.status[i] = "queued"
    /\ \A j \in DOMAIN s.status : s.status[j] = "queued" => j <= i

\* the task the queue starts next: tasks[started++]
NextToStart(s) == s.q.tasks[s.q.started + 1]

\* QueueCallback without the pop(): a freed slot is given to no queued task
QueueCallbackWithoutPop(s, i) ==
  LET s1 == [Log(s, "callback", i) EXCEPT !.q.active = @ - 1, !.q.remaining = @ - 1]
  IN  IF s1.q.remaining # 0 THEN s1 ELSE Notify(s1)

RECURSIVE Pop(_), QueueCallback(_, _)

\* the function _runTask hands to the queue, run for task i: exec() starts
\* the child of a string command; a function command is called with its
\* continuation, which a "sync" function invokes before it returns
StartTask(s, i) ==
  LET cmd == neededTasks[i].cmd
      s1 == [Log(s, "start", i) EXCEPT !.status[i] = "running"]
  IN  IF cmd.kind = "function" /\ cmd.body = "sync"
        THEN QueueCallback(
               LocalComplete(Log([s1 EXCEPT !.status[i] = "settled"], "onComplete", i), i),
               i)
        ELSE s1

\* the queue's pop(): start queued tasks while a slot is free
Pop(s) ==
  IF s.q.started < Len(s.q.tasks) /\ s.q.active < options.numberOfConcurrentTask
    THEN LET i == NextToStart(s)
             s1 == [s EXCEPT !.q.popping = TRUE,
                             !.q.started = @ + 1,
                             !.q.active = @ + 1]
         IN  Pop(StartTask(s1, i))
    ELSE [s EXCEPT !.q.popping = FALSE]

\* the continuation the queue passes to task i
QueueCallback(s, i) ==
  LET s1 == [Log(s, "callback", i) EXCEPT !.q.active = @ - 1, !.q.remaining = @ - 1]
  IN  IF s1.q.remaining # 0
        THEN IF s1.q.popping THEN s1 ELSE Pop(s1)
        ELSE Notify(s1)

\* taskQueue.defer(f), f being the function _runTask made for task i: push,
\* count, pop
Defer(s, i) == Pop([s EXCEPT !.q.tasks = Append(@, i), !.q.remaining = @ + 1])

\* taskQueue.await(f)
Await(s) ==
  LET s1 == [s EXCEPT !.q.awaiting = TRUE]
  IN  IF s1.q.remaining = 0 THEN Notify(s1) ELSE s1

----------------------------------------------------------------------------
(* The run *)

\* VerifyPlugin without the tests of plugin.task
VerifyPluginHookOnly(plugin) ==
  plugin.isObject /\ Truthy(plugin.hook) /\ plugin.hook.type = "string"

\* verifyPlugin(plugin)
VerifyPlugin(plugin) ==
  /\ plugin.isObject
  /\ Truthy(plugin.hook)
  /\ plugin.hook.type = "string"
  /\ Truthy(plugin.task)
  /\ plugin.task.type = "function"

RECURSIVE AttachPlugins(_, _)

\* options.plugins.forEach of ImageSizer's 'ready' listener, from plugin k
\* on; st holds the trace and the listeners
AttachPlugins(st, k) ==
  IF k > Len(options.plugins)
    THEN st
    ELSE LET plugin == options.plugins[k]
         IN  AttachPlugins(
               IF ~VerifyPlugin(plugin)
                 THEN [st EXCEPT !.trace = Append(@, Entry("invalidPlugin", k))]
                 ELSE IF plugin.hook.value = "ready"
                   THEN [st EXCEPT !.trace = Append(@, Entry("plugin", k))]
                   ELSE [st EXCEPT !.listeners =
                                     Append(@, [hook |-> plugin.hook.value, plugin |-> k])],
               k + 1)

\* the deferred callback of the constructor: 'ready' is emitted, and
\* ImageSizer's listener goes through the plugins (and defers runTasks())
EmitReady ==
  /\ pc = "constructed"
  /\ pc' = "ready"
  /\ LET attached == AttachPlugins([trace |-> Append(trace, Entry("ready", 0)),
                                     listeners |-> listeners], 1)
     IN  trace' = attached.trace /\ listeners' = attached.listeners
  /\ payloads' = Append(payloads, Payload("ready", [media |-> ScannedSlugs]))
  /\ UNCHANGED <<options, srcFileHash, installed, registered, previousRun,
                 privateData, diskPrivate, allTasks,
                 neededTasks, q, status, stderrWrites, tasksRun, pendingDone>>

\* RunTask handing the queue a function that closes over the last needed
\* task, whichever task it was made for
RunTaskLast(s, i) == Defer(Log(s, "defer", i), Len(neededTasks))

\* _runTask(task) for task i: hand the queue a function that runs it
RunTask(s, i) == Defer(Log(s, "defer", i), i)

RECURSIVE ForEachNeededFirst(_, _)

\* ForEachNeeded emitting alltasksrunning after the first _runTask call
\* instead of the last
ForEachNeededFirst(s, i) ==
  IF i > Len(neededTasks)
    THEN s
    ELSE LET s1 == RunTask(s, i)
             s2 == IF i = 1 THEN Emit(s1, "alltasksrunning", 0) ELSE s1
         IN  ForEachNeededFirst(s2, i + 1)

RECURSIVE ForEachNeeded(_, _)

\* neededTasks.forEach of runTasks from index i on: alltasksrunning follows
\* the last _runTask call
ForEachNeeded(s, i) ==
  IF i > Len(neededTasks)
    THEN s
    ELSE LET s1 == RunTask(s, i)
             s2 == IF i = Len(neededTasks) THEN Emit(s1, "alltasksrunning", 0) ELSE s1
         IN  ForEachNeeded(s2, i + 1)

\* RunTasks without the test of line 403: the queue is awaited whatever the
\* number of needed tasks
RunTasksThroughQueue ==
  /\ pc = "ready"
  /\ pc' = "running"
  /\ Commit(Await(ForEachNeeded(Emit(Snapshot, "alltasksready", 0), 1)))
  /\ UNCHANGED <<options, srcFileHash, installed, registered, previousRun, listeners,
                 privateData, diskPrivate, allTasks,
                 neededTasks, stderrWrites>>

\* runTasks(), called once 'ready' has been emitted (image-sizer.js defers
\* the call in its 'ready' listener)
RunTasks ==
  /\ pc = "ready"
  /\ pc' = "running"
  /\ LET s0 == Emit(Snapshot, "alltasksready", 0)
     IN  IF Len(neededTasks) > 0
           THEN Commit(Await(ForEachNeeded(s0, 1)))
           ELSE Commit(Emit(Emit(s0, "alltasksrunning", 0), "alltasksdone", 0))
  /\ UNCHANGED <<options, srcFileHash, installed, registered, previousRun, listeners,
                 privateData, diskPrivate, allTasks,
                 neededTasks, stderrWrites>>

RECURSIVE SumOf(_)

\* the sum of a sequence of numbers
SumOf(seq) == IF seq = <<>> THEN 0 ELSE Head(seq) + SumOf(Tail(seq))

IsProcess(i) == i \in DOMAIN neededTasks /\ neededTasks[i].cmd.kind = "string"

IsFunction(i) == i \in DOMAIN neededTasks /\ neededTasks[i].cmd.kind = "function"

\* a 'data' event on the stderr of the child of task i
Stderr(i) ==
  /\ IsProcess(i)
  /\ status[i] = "running"
  /\ SumOf(stderrWrites) < MaxStderr
  /\ stderrWrites' = [stderrWrites EXCEPT ![i] = @ + 1]
  /\ Commit(QueueCallback(Log(Snapshot, "stderr", i), i))
  /\ UNCHANGED <<options, srcFileHash, installed, registered, previousRun, listeners,
                 privateData, diskPrivate, allTasks,
                 neededTasks, pc>>

\* ExitHandler without the test of line 339: a child that was killed is
\* reported as complete
ExitHandlerAlwaysComplete(s, i, code) ==
  LocalComplete(Log(s, "onComplete", i), i)

\* what the 'exit' listener does before it calls the queue's continuation
ExitHandler(s, i, code) ==
  IF code = "null"
    THEN Log(s, "onTimeout", i)
    ELSE LocalComplete(Log(s, "onComplete", i), i)

\* the 'exit' event of the child of task i
Exit(i, code) ==
  /\ IsProcess(i)
  /\ status[i] = "running"
  /\ Commit(QueueCallback(
              ExitHandler([Log(Snapshot, "exit", i) EXCEPT !.status[i] = "exited"], i, code),
              i))
  /\ UNCHANGED <<options, srcFileHash, installed, registered, previousRun, listeners,
                 privateData, diskPrivate, allTasks,
                 neededTasks, pc, stderrWrites>>

\* the function of task i invokes its continuation after it has returned
Continue(i) ==
  /\ IsFunction(i)
  /\ status[i] = "running"
  /\ Commit(QueueCallback(
              LocalComplete(
                Log([Snapshot EXCEPT !.status[i] = "settled"], "onComplete", i), i),
              i))
  /\ UNCHANGED <<options, srcFileHash, installed, registered, previousRun, listeners,
                 privateData, diskPrivate, allTasks,
                 neededTasks, pc, stderrWrites>>

\* the deferred callback of the alltasksdone listener
Finish ==
  /\ pendingDone > 0
  /\ pendingDone' = pendingDone - 1
  /\ diskPrivate' = privateData
  /\ trace' = trace \o <<Entry("writePublic", 0), Entry("writePrivate", 0),
                         Entry("done", 0)>> \o PluginCalls("done")
  /\ payloads' = Append(payloads, Payload("done", GetTasksMetaData(tasksRun)))
  /\ UNCHANGED <<options, srcFileHash, installed, registered, previousRun, listeners,
                 privateData, allTasks, neededTasks, pc,
                 q, status, stderrWrites, tasksRun>>

Next ==
  \/ \E cmd \in Cmds, slug \in Slugs, outputExists \in BOOLEAN :
       AddTask(cmd, slug, outputExists)
  \/ EmitReady
  \/ RunTasks
  \/ \E i \in DOMAIN neededTasks : Stderr(i)
  \/ \E i \in DOMAIN neededTasks, code \in ExitCodes : Exit(i, code)
  \/ \E i \in DOMAIN neededTasks : Continue(i)
  \/ Finish

Spec == Init /\ [][Next]_vars

----------------------------------------------------------------------------
(* The processes that construct a manager: the dependency check, a re-run *)

\* addTask on a manager whose constructor returned early: this.privateData
\* is undefined, so runTask is true and line 273 throws a TypeError
AddTaskAborted(cmd, slug) ==
  /\ pc = "aborted"
  /\ Calls < MaxRequests
  /\ trace' = Append(trace, Entry("throw", 0))
  /\ UNCHANGED <<options, srcFileHash, installed, registered, previousRun, listeners,
                 privateData, diskPrivate, allTasks, neededTasks, pc, q, status,
                 stderrWrites, tasksRun, pendingDone, payloads>>

\* runTasks() on a manager whose constructor returned early: the data of
\* alltasksready is computed before the emit, and reading the length of
\* this.allTasks, which is undefined, throws a TypeError
RunTasksAborted ==
  /\ pc = "aborted"
  /\ Calls < MaxRequests
  /\ trace' = Append(trace, Entry("throw", 0))
  /\ UNCHANGED <<options, srcFileHash, installed, registered, previousRun, listeners,
                 privateData, diskPrivate, allTasks, neededTasks, pc, q, status,
                 stderrWrites, tasksRun, pendingDone, payloads>>

\* the process has nothing left to do: done has been emitted, no deferred
\* callback is pending and no child is running
Ended ==
  /\ pc = "running"
  /\ \E k \in DOMAIN trace : trace[k].type = "done"
  /\ pendingDone = 0
  /\ \A i \in DOMAIN status : status[i] # "running"

\* Restart with line 124 finding no private data file
RestartWithoutLedger ==
  /\ Ended
  /\ ~previousRun.ended
  /\ previousRun' = [ended |-> TRUE, registered |-> registered]
  /\ registered' = {}
  /\ privateData' = EmptyLedger
  /\ allTasks' = <<>>
  /\ neededTasks' = <<>>
  /\ pc' = AfterConstructor(options.dependencies, installed)
  /\ q' = NewQueue
  /\ status' = <<>>
  /\ stderrWrites' = <<>>
  /\ tasksRun' = 0
  /\ pendingDone' = 0
  /\ payloads' = <<>>
  /\ listeners' = <<>>
  /\ trace' = <<>>
  /\ UNCHANGED <<options, srcFileHash, installed, diskPrivate>>

\* the script is run again, on the same files with the same options, after
\* a process that ended: the constructor of the new process reads the ledger
\* the first one wrote (the file holds strings keyed by strings, which
\* JSON.stringify and JSON.parse give back as they were)
Restart ==
  /\ Ended
  /\ ~previousRun.ended
  /\ previousRun' = [ended |-> TRUE, registered |-> registered]
  /\ registered' = {}
  /\ privateData' = diskPrivate
  /\ allTasks' = <<>>
  /\ neededTasks' = <<>>
  /\ pc' = AfterConstructor(options.dependencies, installed)
  /\ q' = NewQueue
  /\ status' = <<>>
  /\ stderrWrites' = <<>>
  /\ tasksRun' = 0
  /\ pendingDone' = 0
  /\ payloads' = <<>>
  /\ listeners' = <<>>
  /\ trace' = <<>>
  /\ UNCHANGED <<options, srcFileHash, installed, diskPrivate>>

\* a first run, every dependency installed or not.  With no ledger to
\* compare them with, which digests the files have makes no difference: they
\* are taken to be RecordedHash.
ProcessInit ==
  /\ New({EmptyLedger}, SUBSET DefaultDependencies)
  /\ srcFileHash = [s \in ScannedSlugs |-> RecordedHash]

ProcessNext ==
  \/ Next
  \/ \E cmd \in Cmds, slug \in Slugs : AddTaskAborted(cmd, slug)
  \/ RunTasksAborted
  \/ Restart

ProcessSpec == ProcessInit /\ [][ProcessNext]_vars

----------------------------------------------------------------------------
(* A first run of an ImageSizer that was given plugins *)

\* a first run with one worker and any list of plugins; the digests of the
\* files are taken to be RecordedHash, as in ProcessInit
PluginInit ==
  /\ NewWith({EmptyLedger}, {DefaultDependencies}, PluginLists)
  /\ options.numberOfConcurrentTask = 1
  /\ ~options.forceTask
  /\ srcFileHash = [s \in ScannedSlugs |-> RecordedHash]

PluginSpec == PluginInit /\ [][Next]_vars

\* the 'exit' event of the child of task i, with any code
ExitAny(i) == \E code \in ExitCodes : Exit(i, code)

\* a callback the event loop will run: a deferred callback, the 'exit' event
\* of a running child, the continuation of a running function task
Progress ==
  \/ EmitReady
  \/ RunTasks
  \/ Finish
  \/ \E i \in DOMAIN neededTasks : ExitAny(i) \/ Continue(i)

\* ENABLED <<Progress>>_vars, written as a predicate of the state
ProgressPending ==
  \/ pc \in {"constructed", "ready"}
  \/ pendingDone > 0
  \/ \E i \in DOMAIN status : status[i] = "running"

\* ProgressPending is ENABLED <<Progress>>_vars
ProgressPendingIsEnabled == ProgressPending <=> ENABLED <<Progress>>_vars

\* The event loop runs the deferred callbacks; every child exits (exec kills
\* it after ten minutes at the latest); every function task is taken to
\* invoke its continuation: while one of these is pending, one of them
\* happens.  The last condition is WF_vars(Progress), with its ENABLED
\* written as ProgressPending.
FairSpec ==
  /\ FirstRunInit /\ [][Next]_vars
  /\ WF_vars(EmitReady)
  /\ WF_vars(Finish)
  /\ ([]<>(~ProgressPending) \/ []<><<Progress>>_vars)

----------------------------------------------------------------------------
(* Reading the trace *)

\* the positions of the trace where type happened for task
At(type, task) == {k \in DOMAIN trace : trace[k] = Entry(type, task)}

\* the positions of the trace where type happened, for any task
AtAny(type) == {k \in DOMAIN trace : trace[k].type = type}

Happened(type) == AtAny(type) # {}

\* the run's events other than taskdone, in the order of their emission
Lifecycle ==
  SelectSeq(trace, LAMBDA e : e.type \in EventTypes \ {"taskdone"})

LifecycleOrder ==
  <<Entry("ready", 0), Entry("alltasksready", 0), Entry("alltasksrunning", 0),
    Entry("alltasksdone", 0), Entry("done", 0)>>

\* the tasks in the order the queue started them
StartOrder == SelectSeq(trace, LAMBDA e : e.type = "start")

\* the needed tasks that are started and have not exited or continued
Outstanding == {i \in DOMAIN status : status[i] = "running"}

\* the taskdone events emitted, and the data they carried, in order
TaskdoneEvents == SelectSeq(trace, LAMBDA e : e.type = "taskdone")

TaskdonePayloads == SelectSeq(payloads, LAMBDA e : e.type = "taskdone")

----------------------------------------------------------------------------
(* Claims *)

\* C1: addTask classifies a registration as needed if and only if the
\* ledger has no entry for (slug, command signature), or the recorded
\* fingerprint differs from the item's current fingerprint, or the output
\* file does not exist, or forceTask is set.
C1_NeededIffRule ==
  [][\A cmd \in Cmds, slug \in ScannedSlugs, outputExists \in BOOLEAN :
       AddTask(cmd, slug, outputExists) =>
         LET sig == CmdLog(cmd)
             noEntry == ~privateData[slug].present
                          \/ privateData[slug].log[sig] = Undefined
             changed == ~noEntry /\ privateData[slug].log[sig] # srcFileHash[slug]
             needed == Len(neededTasks') = Len(neededTasks) + 1
         IN  /\ ~needed => neededTasks' = neededTasks
             /\ needed <=> (noEntry \/ changed \/ ~outputExists \/ options.forceTask)]_vars

\* C1, witness: one registration was classified needed and one not needed
C1_Witness == Len(neededTasks) >= 1 /\ Len(allTasks) > Len(neededTasks)

\* C2: the tasks started and not yet settled are never more than the
\* concurrency limit.
C2_AtMostNOutstanding == Cardinality(Outstanding) <= options.numberOfConcurrentTask

\* C3: alltasksdone is emitted at most once, and when it has been emitted no
\* needed task is unstarted or running.
C3_DrainedOnceAfterAll ==
  /\ Cardinality(AtAny("alltasksdone")) <= 1
  /\ (Happened("alltasksdone") /\ Len(neededTasks) > 0) =>
       \A i \in DOMAIN status : status[i] \in {"exited", "settled"}

\* C4: ready, alltasksready, alltasksrunning, alltasksdone and done are
\* each emitted at most once and in that order, so that a run that has
\* emitted done has emitted each exactly once; alltasksrunning is emitted
\* after every needed task has been handed to the queue.
C4_LifecycleOrder ==
  /\ \E n \in 0..Len(LifecycleOrder) : Lifecycle = SubSeq(LifecycleOrder, 1, n)
  /\ \A k \in AtAny("alltasksrunning") :
       \A i \in DOMAIN neededTasks : \E d \in At("defer", i) : d < k

\* C4, witness: a run with two or more needed tasks has emitted all five
C4_Witness == Lifecycle = LifecycleOrder /\ Len(neededTasks) >= 2

\* C5: every taskdone is emitted after alltasksrunning and before
\* alltasksdone and done.
C5_TaskdoneBetween ==
  \A k \in AtAny("taskdone") :
    /\ \E r \in AtAny("alltasksrunning") : r < k
    /\ \A d \in AtAny("alltasksdone") \cup AtAny("done") : k < d

C7_OneTaskdoneBeforeRelease ==
  \A i \in DOMAIN status :
    status[i] \in {"exited", "settled"} =>
      /\ Cardinality(At("taskdone", i)) = 1
      /\ \A d \in At("taskdone", i), c \in At("callback", i) : d < c

\* C8: whatever tasks fail or time out, every needed task is eventually
\* started and alltasksdone and then done are eventually emitted.
C8_BatchDrains ==
  <>(/\ \A i \in DOMAIN status : status[i] # "queued"
     /\ \E a \in AtAny("alltasksdone"), d \in AtAny("done") : a < d)

\* C8, witness: a run with a task that wrote to stderr and a task that
\* timed out has emitted done
C8_Witness == Happened("done") /\ Happened("stderr") /\ Happened("onTimeout")

\* C9: from its registration on, the ledger maps a needed task's (slug,
\* signature) to the item's current fingerprint, and so does the ledger
\* written at the end of the run.
C9_RecordedAtRegistration ==
  \A i \in DOMAIN neededTasks :
    LET slug == neededTasks[i].slug
        sig == CmdLog(neededTasks[i].cmd)
    IN  /\ privateData[slug].present
        /\ privateData[slug].log[sig] = srcFileHash[slug]
        /\ Happened("done") => diskPrivate[slug].log[sig] = srcFileHash[slug]

\* C9, witness: a task not yet started whose pair had no entry, or another
\* fingerprint, in the ledger file
C9_Witness ==
  \E i \in DOMAIN neededTasks :
    /\ status[i] = "queued"
    /\ diskPrivate[neededTasks[i].slug].log[CmdLog(neededTasks[i].cmd)]
         # srcFileHash[neededTasks[i].slug]

\* C10: every entry of the ledger written at the end of the run that a
\* registration of this run set records a command one of whose tasks had
\* completed successfully before the write.
C10_PersistedMeansSucceeded ==
  Happened("done") =>
    \A i \in DOMAIN neededTasks :
      diskPrivate[neededTasks[i].slug].log[CmdLog(neededTasks[i].cmd)]
          = srcFileHash[neededTasks[i].slug]
        => \E j \in DOMAIN neededTasks :
             /\ neededTasks[j] = neededTasks[i]
             /\ \E c \in At("onComplete", j), w \in AtAny("writePrivate") : c < w

\* C11: every addTask call that succeeds appends exactly one entry to
\* allTasks, needed or not, and exactly one entry to neededTasks if and
\* only if the task is needed; a registration that is not needed leaves
\* neededTasks and the ledger unchanged.
C11_ListsGrowth ==
  [][\A cmd \in Cmds, slug \in ScannedSlugs, outputExists \in BOOLEAN :
       AddTask(cmd, slug, outputExists) =>
         LET sig == CmdLog(cmd)
             needed == \/ ~privateData[slug].present
                       \/ privateData[slug].log[sig] # srcFileHash[slug]
                       \/ ~outputExists
                       \/ options.forceTask
         IN  /\ allTasks' = Append(allTasks, cmd)
             /\ needed => /\ Len(neededTasks') = Len(neededTasks) + 1
                          /\ SubSeq(neededTasks', 1, Len(neededTasks)) = neededTasks
                          /\ neededTasks'[Len(neededTasks')].cmd = cmd
                          /\ neededTasks'[Len(neededTasks')].slug = slug
             /\ ~needed => neededTasks' = neededTasks /\ privateData' = privateData]_vars

\* C11, witness: a registration that was not needed followed a needed one
C11_Witness ==
  /\ Len(allTasks) = 2
  /\ Len(neededTasks) = 1
  /\ neededTasks[1].cmd = allTasks[1]

\* C12: every task started is an entry of neededTasks, every entry of
\* neededTasks was put there by an addTask call, and no entry is started
\* more than once in a run.
C12_SoleAdmission ==
  /\ [](\A k \in AtAny("start") :
          /\ trace[k].task \in DOMAIN neededTasks
          /\ Cardinality(At("start", trace[k].task)) = 1)
  /\ [][neededTasks' # neededTasks =>
          \E cmd \in Cmds, slug \in ScannedSlugs, outputExists \in BOOLEAN :
            /\ AddTask(cmd, slug, outputExists)
            /\ neededTasks' = Append(neededTasks, [cmd |-> cmd, slug |-> slug])]_vars

\* C12, witness: every needed task of a run with as many as can be
\* registered has been started
C12_Witness ==
  /\ Len(neededTasks) >= MaxRequests
  /\ \A i \in DOMAIN neededTasks : At("start", i) # {}

\* C13: in a run with no needed task alltasksrunning is followed at once by
\* alltasksdone, no task is started and nothing is handed to the queue or
\* awaited on it; the final write and done are then scheduled, once, and
\* done is emitted after alltasksdone.
C13_EmptyRun ==
  (pc = "running" /\ Len(neededTasks) = 0) =>
    /\ \E k \in AtAny("alltasksrunning") :
         /\ AtAny("alltasksrunning") = {k}
         /\ AtAny("alltasksdone") = {k + 1}
    /\ AtAny("start") \cup AtAny("defer") \cup AtAny("taskdone") = {}
    /\ q.tasks = <<>> /\ q.started = 0 /\ q.remaining = 0 /\ ~q.awaiting
    /\ pendingDone + Cardinality(AtAny("done")) = 1
    /\ \A d \in AtAny("done"), a \in AtAny("alltasksdone") : a < d

\* C13, witness: a run whose registrations were all not needed has emitted
\* done
C13_Witness ==
  /\ Len(allTasks) >= 1
  /\ Len(neededTasks) = 0
  /\ Happened("done")

\* C14: in the run that follows a run that ended with its ledger written,
\* on unchanged files and without forceTask, a registration that repeats
\* one of the first run and finds its output file is not needed and leaves
\* the ledger unchanged, so that a run of such registrations has no needed
\* task; and in a run without needed tasks alltasksdone is emitted right
\* after alltasksrunning.
C14_RerunIdempotent ==
  /\ [][\A cmd \in Cmds, slug \in Slugs :
          (/\ previousRun.ended
           /\ ~options.forceTask
           /\ [slug |-> slug, sig |-> CmdLog(cmd)] \in previousRun.registered
           /\ AddTask(cmd, slug, TRUE))
          => /\ neededTasks' = neededTasks
             /\ privateData' = privateData
             /\ allTasks' = Append(allTasks, cmd)]_vars
  /\ []((previousRun.ended /\ pc = "running" /\ Len(neededTasks) = 0) =>
          \E k \in AtAny("alltasksrunning") : AtAny("alltasksdone") = {k + 1})

\* C14, witness: the second run made the registrations of the first, two or
\* more, needed none of them and has emitted done
C14_Witness ==
  /\ previousRun.ended
  /\ ~options.forceTask
  /\ Cardinality(previousRun.registered) >= 2
  /\ registered = previousRun.registered
  /\ Len(neededTasks) = 0
  /\ privateData = diskPrivate
  /\ Happened("done")

\* C15: a process task has had one client callback invoked, once, when it
\* has exited and none before; its exit invokes onTimeout if the code is
\* null and onComplete otherwise, then releases the slot, and leaves no
\* registered task waiting beside a free slot.
C15_ExitCallbacks ==
  /\ [](\A i \in DOMAIN neededTasks :
          IsProcess(i) =>
            Cardinality(At("onComplete", i)) + Cardinality(At("onTimeout", i))
              = IF status[i] = "exited" THEN 1 ELSE 0)
  /\ [][\A i \in DOMAIN neededTasks, code \in ExitCodes :
          Exit(i, code) =>
            LET new == SubSeq(trace', Len(trace) + 1, Len(trace'))
                Now(type) == {k \in DOMAIN new : new[k] = Entry(type, i)}
            IN  /\ Cardinality(Now("onTimeout")) = IF code = "null" THEN 1 ELSE 0
                /\ Cardinality(Now("onComplete")) = IF code = "null" THEN 0 ELSE 1
                /\ \E c \in Now("callback") :
                     \A k \in Now("onTimeout") \cup Now("onComplete") : k < c
                /\ \A j \in DOMAIN status' :
                     status'[j] = "queued" =>
                       q'.active >= options.numberOfConcurrentTask]_vars

\* C15, witness: a child timed out, a task was started after that, and a
\* child exited with a code
C15_Witness ==
  /\ \E i, j \in DOMAIN neededTasks :
       \E t \in At("onTimeout", i), s \in At("start", j) : t < s
  /\ \E i \in DOMAIN neededTasks : IsProcess(i) /\ At("onComplete", i) # {}

\* C16: addTask with a slug that no scanned item has throws, and appends
\* nothing to neededTasks or to allTasks; no needed task has such a slug.
C16_UnknownSlugRejected ==
  /\ [](\A i \in DOMAIN neededTasks : neededTasks[i].slug \in ScannedSlugs)
  /\ [][\A cmd \in Cmds, slug \in UnknownSlugs, outputExists \in BOOLEAN :
          AddTask(cmd, slug, outputExists) =>
            /\ trace' = Append(trace, Entry("throw", 0))
            /\ neededTasks' = neededTasks
            /\ allTasks' = allTasks
            /\ registered' = registered]_vars

\* C16, witness: a registration with an unknown slug has thrown where the
\* ledger had no fingerprint for the pair, and a later registration with a
\* scanned slug was admitted
C16_Witness ==
  /\ Happened("throw")
  /\ \A g \in Sigs : diskPrivate["x"].log[g] = Undefined
  /\ Len(allTasks) = 1
  /\ Len(neededTasks) = 1

\* C17: a manager whose constructor found a dependency missing never emits
\* ready or any other event, registers no task, starts none and writes no
\* manifest.
C17_AbortedDoesNothing ==
  ~(options.dependencies \subseteq installed) =>
    /\ pc = "aborted"
    /\ payloads = <<>>
    /\ \A k \in DOMAIN trace : trace[k].type = "throw"
    /\ allTasks = <<>> /\ neededTasks = <<>> /\ registered = {}
    /\ q = NewQueue
    /\ diskPrivate = EmptyLedger

\* C17, witness: addTask and runTasks were called on a manager whose
\* constructor found a dependency missing
C17_Witness ==
  /\ "convert" \notin installed
  /\ Cardinality(AtAny("throw")) >= MaxRequests

\* C18: the constructor returns with ready not yet emitted, so what is
\* registered right after construction is registered before ready; runTasks
\* starts only after ready, no task is registered once it has started, and
\* every needed task, whether registered before ready or after it, is
\* handed to the queue by the run.
C18_ReadyDeferred ==
  /\ [](/\ pc = "constructed" => payloads = <<>>
        /\ \A r \in AtAny("alltasksready") : \E k \in AtAny("ready") : k < r
        /\ pc = "running" =>
             \A i \in DOMAIN neededTasks :
               \E d \in At("defer", i), r \in AtAny("alltasksrunning") : d < r)
  /\ [][(allTasks' # allTasks \/ neededTasks' # neededTasks) =>
          /\ ~Happened("alltasksready")
          /\ pc' = pc]_vars

\* C18, witness: ready was emitted first, and the run that followed has
\* handed two or more tasks to the queue
C18_Witness ==
  /\ trace # <<>> /\ trace[1] = Entry("ready", 0)
  /\ Happened("alltasksrunning")
  /\ Len(neededTasks) >= 2

\* C19: once done has been emitted, each manifest has been written exactly
\* once, after alltasksdone and before done; no event follows done; and the
\* numberOfTasksRun that done carried is the number of taskdone events of
\* the run.
C19_WrittenOnceThenDone ==
  Happened("done") =>
    /\ Cardinality(AtAny("writePublic")) = 1
    /\ Cardinality(AtAny("writePrivate")) = 1
    /\ \A w \in AtAny("writePublic") \cup AtAny("writePrivate") :
         /\ \E a \in AtAny("alltasksdone") : a < w
         /\ \A d \in AtAny("done") : w < d
    /\ \A d \in AtAny("done"), k \in DOMAIN trace :
         trace[k].type \in EventTypes => k <= d
    /\ \A p \in DOMAIN payloads :
         payloads[p].type = "done" =>
           payloads[p].data.numberOfTasksRun = Cardinality(AtAny("taskdone"))

\* C20: a registration reads and writes the ledger entry of its own (slug,
\* signature) pair alone: whether it is needed is decided by that entry, and
\* every other entry is left as it was.  Two needed tasks of one item are
\* two entries of neededTasks; each task that completes emits one taskdone,
\* its own, whose data names its command and the item.
C20_SignaturesIndependent ==
  /\ [][\A cmd \in Cmds, slug \in ScannedSlugs, outputExists \in BOOLEAN :
          AddTask(cmd, slug, outputExists) =>
            LET sig == CmdLog(cmd)
                own == IF privateData[slug].present
                         THEN privateData[slug].log[sig] ELSE Undefined
            IN  /\ \A s \in Slugs, g \in Sigs :
                     <<s, g>> # <<slug, sig>> =>
                       privateData'[s].log[g] = privateData[s].log[g]
                /\ \A s \in Slugs \ {slug} : privateData'[s] = privateData[s]
                /\ neededTasks' # neededTasks <=>
                     (own # srcFileHash[slug] \/ ~outputExists \/ options.forceTask)]_vars
  /\ [](/\ \A i \in DOMAIN neededTasks :
             /\ Cardinality(At("taskdone", i)) = Cardinality(At("onComplete", i))
             /\ Cardinality(At("taskdone", i)) <= 1
        /\ Len(TaskdonePayloads) = Len(TaskdoneEvents)
        /\ \A k \in DOMAIN TaskdoneEvents :
             LET task == neededTasks[TaskdoneEvents[k].task]
             IN  /\ TaskdonePayloads[k].data.cmd = task.cmd.name
                 /\ TaskdonePayloads[k].data.media = task.slug)

\* C20, witness: two tasks of one item with different signatures, the
\* second registered when the ledger held the entry of the first, have each
\* emitted taskdone with the item in its data
C20_Witness ==
  /\ Len(neededTasks) = 2
  /\ neededTasks[1].slug = neededTasks[2].slug
  /\ CmdLog(neededTasks[1].cmd) # CmdLog(neededTasks[2].cmd)
  /\ At("taskdone", 1) # {} /\ At("taskdone", 2) # {}
  /\ Len(TaskdonePayloads) = 2
  /\ TaskdonePayloads[1].data.media = TaskdonePayloads[2].data.media

\* C22: the queue continuation of a started task has been invoked at most
\* once, and exactly once when the task has exited or continued.
C22_ContinuationOnce ==
  \A i \in DOMAIN status :
    /\ Cardinality(At("callback", i)) <= 1
    /\ status[i] \in {"exited", "settled"} => Cardinality(At("callback", i)) = 1

\* C23: an addTask call with a slug that no scanned item has leaves the
\* ledger as it was before the call.
C23_RejectLeavesLedger ==
  [][\A cmd \in Cmds, slug \in UnknownSlugs, outputExists \in BOOLEAN :
       AddTask(cmd, slug, outputExists) => privateData' = privateData]_vars

\* C24: in every state the taskdone events counted are no more than the
\* needed tasks, which are no more than the requested ones; and
\* alltasksready, alltasksrunning, alltasksdone and done each carry the
\* number requested, the number needed and the number of taskdone events
\* emitted before it.
C24_CountsCarried ==
  /\ tasksRun = Cardinality(AtAny("taskdone"))
  /\ tasksRun <= Len(neededTasks)
  /\ Len(neededTasks) <= Len(allTasks)
  /\ \A p \in DOMAIN payloads :
       payloads[p].type \in {"alltasksready", "alltasksrunning", "alltasksdone", "done"} =>
         /\ payloads[p].data.numberOfTasksRequested = Len(allTasks)
         /\ payloads[p].data.numberOfTasksNeeded = Len(neededTasks)
         /\ payloads[p].data.numberOfTasksRun =
              Cardinality({k \in 1..(p - 1) : payloads[k].type = "taskdone"})

\* C24, witness: done carried one task run, one needed and two requested
C24_Witness ==
  \E p \in DOMAIN payloads :
    /\ payloads[p].type = "done"
    /\ payloads[p].data.numberOfTasksRun = 1
    /\ payloads[p].data.numberOfTasksNeeded = 1
    /\ payloads[p].data.numberOfTasksRequested = 2

----------------------------------------------------------------------------
(* Plugins *)

\* a plugin descriptor that is not an object, or whose hook is not a
\* non-empty string, or whose task is not a function
Malformed(plugin) ==
  \/ ~plugin.isObject
  \/ ~(plugin.hook.type = "string" /\ plugin.hook.value # "")
  \/ plugin.task.type # "function"

\* the positions of listeners where the task of plugin k is attached
AttachedAt(k) == {n \in DOMAIN listeners : listeners[n].plugin = k}

\* C21: the task of a malformed plugin is never invoked and never attached
\* as a listener; once ready was emitted, every malformed plugin was logged
\* as invalid, every valid plugin of another hook is attached once, every
\* valid plugin of 'ready' was invoked exactly once, after 'ready' and before
\* any 'alltasksready', and runTasks is scheduled or has run.
C21_MalformedPluginSkipped ==
  /\ \A k \in DOMAIN options.plugins :
       LET plugin == options.plugins[k]
       IN  /\ Malformed(plugin) =>
                /\ At("plugin", k) = {}
                /\ AttachedAt(k) = {}
                /\ Happened("ready") => Cardinality(At("invalidPlugin", k)) = 1
           /\ (~Malformed(plugin) /\ Happened("ready")) =>
                IF plugin.hook.value = "ready"
                  THEN /\ Cardinality(At("plugin", k)) = 1
                       /\ AttachedAt(k) = {}
                       /\ \A n \in At("plugin", k) :
                            /\ \A r \in AtAny("ready") : r < n
                            /\ \A r \in AtAny("alltasksready") : n < r
                  ELSE /\ Cardinality(AttachedAt(k)) = 1
                       /\ \A n \in AttachedAt(k) : listeners[n].hook = plugin.hook.value
  /\ Happened("ready") => pc \in {"ready", "running"}

\* C21, witness: a malformed plugin came first in the list, the valid plugin
\* of 'ready' after it was invoked, and the run of the tasks has begun
C21_Witness ==
  /\ Len(options.plugins) = 2
  /\ Malformed(options.plugins[1])
  /\ ~Malformed(options.plugins[2])
  /\ options.plugins[2].hook.value = "ready"
  /\ At("invalidPlugin", 1) # {}
  /\ At("plugin", 2) # {}
  /\ Happened("alltasksready")

====
